---- MODULE Spec2Model ----
(***************************************************************************)
(* Two event handlers of the repository, each a linear sequence of calls  *)
(* to a cloud provider:                                                    *)
(*   lambda-start-stop-ec2/lambda.py   the Instance Scheduler              *)
(*   rds-cross-region-copy/lambda.py   the Snapshot Replicator             *)
(* One behaviour is one invocation of one handler.  SchedulerSpec runs the *)
(* scheduler (the replicator's variables stay idle), ReplicatorSpec runs   *)
(* the replicator.  Provider calls are recorded in the order issued; a     *)
(* provider call either returns or raises.                                 *)
(***************************************************************************)
EXTENDS Integers, Sequences, FiniteSets, TLC

VARIABLES
    event,          \* scheduler: the trigger payload (a dict)
    pc,             \* scheduler: position in lambda_handler
    response,       \* scheduler: response['Reservations'] of describe_instances
    instance_ids,   \* scheduler: the flattened identifier list
    calls,          \* scheduler: provider calls issued so far, in order
    log,            \* scheduler: lines printed so far
    outcome,        \* scheduler: how the invocation ended
    environ,        \* replicator: os.environ
    resources,      \* replicator: event['resources']
    rpc,            \* replicator: position in lambda_handler
    idx,            \* replicator: index of the next record of the for loop
    copies,         \* replicator: copy_db_snapshot requests issued so far
    client,         \* replicator: the rds client built for the invocation
    rlog,           \* replicator: lines printed so far
    routcome        \* replicator: how the invocation ended

schedVars == <<event, pc, response, instance_ids, calls, log, outcome>>
replVars == <<environ, resources, rpc, idx, copies, client, rlog, routcome>>
vars == <<schedVars, replVars>>

(***************************************************************************)
(* Bounds of the model.                                                    *)
(***************************************************************************)
MaxReservations == 2
MaxInstances == 2
MaxResources == 2
MaxArnLen == 3

SeqsUpTo(S, n) == UNION {[1..k -> S] : k \in 0..n}

(***************************************************************************)
(* Instance Scheduler                                                      *)
(***************************************************************************)
TAG_KEY == "Scheduled"
TAG_VALUE == "OfficeHours"

InstanceIdValues == {"i-111", "i-222"}
ActionValues == {"Start", "Stop", "start", "Restart"}

\* Trigger payloads: a dict with other fields, with or without 'Action'.
Events ==
    {[time |-> "08:00"]} \cup {[time |-> "08:00", Action |-> a] : a \in ActionValues}

\* Reservations of a describe_instances response, each a list of instances.
Responses == SeqsUpTo(SeqsUpTo(InstanceIdValues, MaxInstances), MaxReservations)

\* Variant: only the first reservation is read.
FlattenFirstOnly(reservations) ==
    IF reservations = <<>> THEN <<>> ELSE Head(reservations)

RECURSIVE Flatten(_)
Flatten(reservations) ==
    IF reservations = <<>> THEN <<>>
    ELSE Head(reservations) \o Flatten(Tail(reservations))

\* ','.join(instance_ids)
RECURSIVE Join(_, _)
Join(ids, sep) ==
    IF ids = <<>> THEN <<>>
    ELSE IF Len(ids) = 1 THEN ids
    ELSE <<Head(ids), sep>> \o Join(Tail(ids), sep)

\* Variant: the filter name lacks the 'tag:' prefix.
custom_filter_no_prefix == <<[Name |-> <<TAG_KEY>>, Values |-> <<TAG_VALUE>>]>>

custom_filter == <<[Name |-> <<"tag:", TAG_KEY>>, Values |-> <<TAG_VALUE>>]>>

DescribeCall == [op |-> "describe_instances", arg |-> custom_filter]
StartCall(ids) == [op |-> "start_instances", arg |-> ids]
StopCall(ids) == [op |-> "stop_instances", arg |-> ids]
WaitCall(waiter, ids) == [op |-> waiter, arg |-> ids]

\* An entry of the call log: the request, and whether the call raised.
Returned(c) == [op |-> c.op, arg |-> c.arg, raised |-> FALSE]
Raised(c) == [op |-> c.op, arg |-> c.arg, raised |-> TRUE]

EventRepr(e) ==
    IF "Action" \in DOMAIN e THEN <<"{'Action': '", e.Action, "'}">> ELSE <<"{}">>
NoneFoundLine == <<"Found no instance ids with tag ", TAG_KEY, "=", TAG_VALUE>>
FoundLine(ids) ==
    <<"Found instance ids ">> \o Join(ids, ",") \o <<" with tag ", TAG_KEY, "=", TAG_VALUE>>
\* Variant: the message leaves the value out.
UnknownActionLineNoValue(a) == <<"Unknown action provided by event.">>
UnknownActionLine(a) == <<"Unknown action ", a, " provided by event.">>

NoClient == [service |-> "", region_name |-> ""]

SchedulerInit ==
    /\ event \in Events
    /\ pc = "handler"
    /\ response = <<>>
    /\ instance_ids = <<>>
    /\ calls = <<>>
    /\ log = <<>>
    /\ outcome = "running"
    /\ environ = [SOURCE_REGION |-> "", DESTINATION_REGION |-> "",
                  DESTINATION_REGION_KMS_KEY_ID |-> ""]
    /\ resources = <<>>
    /\ rpc = "idle"
    /\ idx = 1
    /\ copies = <<>>
    /\ client = NoClient
    /\ rlog = <<>>
    /\ routcome = "idle"

\* lambda_handler, lines 26-32: print the inputs.
HandlerEntry ==
    /\ pc = "handler"
    /\ log' = log \o <<EventRepr(event), <<"<context>">>>>
    /\ pc' = "describe"
    /\ UNCHANGED <<event, response, instance_ids, calls, outcome>>
    /\ UNCHANGED replVars

\* line 34, the lookup returns some reservations.
DescribeInstances ==
    /\ pc = "describe"
    /\ \E r \in Responses : response' = r
    /\ calls' = Append(calls, Returned(DescribeCall))
    /\ pc' = "flatten"
    /\ UNCHANGED <<event, instance_ids, log, outcome>>
    /\ UNCHANGED replVars

\* line 34, the lookup raises.
DescribeInstancesFails ==
    /\ pc = "describe"
    /\ calls' = Append(calls, Raised(DescribeCall))
    /\ pc' = "done"
    /\ outcome' = "ClientError"
    /\ UNCHANGED <<event, response, instance_ids, log>>
    /\ UNCHANGED replVars

\* lines 36-39
FlattenResponse ==
    /\ pc = "flatten"
    /\ instance_ids' = Flatten(response)
    /\ pc' = "check"
    /\ UNCHANGED <<event, response, calls, log, outcome>>
    /\ UNCHANGED replVars

\* lines 41-43: exit() raises SystemExit out of the handler.
NoInstances ==
    /\ pc = "check"
    /\ instance_ids = <<>>
    /\ log' = Append(log, NoneFoundLine)
    /\ pc' = "done"
    /\ outcome' = "SystemExit"
    /\ UNCHANGED <<event, response, instance_ids, calls>>
    /\ UNCHANGED replVars

\* line 45
FoundInstances ==
    /\ pc = "check"
    /\ instance_ids # <<>>
    /\ log' = Append(log, FoundLine(instance_ids))
    /\ pc' = "dispatch"
    /\ UNCHANGED <<event, response, instance_ids, calls, outcome>>
    /\ UNCHANGED replVars

\* Variant: the last branch is a plain else that stops the instances.
DispatchElseStop ==
    /\ pc = "dispatch"
    /\ IF "Action" \notin DOMAIN event
       THEN /\ pc' = "done"
            /\ outcome' = "KeyError"
       ELSE IF event.Action = "Start"
       THEN /\ pc' = "start_request"
            /\ UNCHANGED outcome
       ELSE /\ pc' = "stop_request"
            /\ UNCHANGED outcome
    /\ UNCHANGED <<event, response, instance_ids, calls, log>>
    /\ UNCHANGED replVars

\* lines 47-52
Dispatch ==
    /\ pc = "dispatch"
    /\ IF "Action" \notin DOMAIN event
       THEN /\ pc' = "done"
            /\ outcome' = "KeyError"
            /\ log' = log
       ELSE IF event.Action = "Start"
       THEN /\ pc' = "start_request"
            /\ UNCHANGED <<outcome, log>>
       ELSE IF event.Action = "Stop"
       THEN /\ pc' = "stop_request"
            /\ UNCHANGED <<outcome, log>>
       ELSE /\ log' = Append(log, UnknownActionLine(event.Action))
            /\ pc' = "done"
            /\ outcome' = "returned"
    /\ UNCHANGED <<event, response, instance_ids, calls>>
    /\ UNCHANGED replVars

\* start_instances, lines 8-9
StartRequest ==
    /\ pc = "start_request"
    /\ log' = Append(log, <<"Starting instances...">>)
    /\ calls' = Append(calls, Returned(StartCall(instance_ids)))
    /\ pc' = "start_wait"
    /\ UNCHANGED <<event, response, instance_ids, outcome>>
    /\ UNCHANGED replVars

\* Variant: the failure of the start request is caught and the wait still runs.
StartRequestFailsSwallowed ==
    /\ pc = "start_request"
    /\ log' = Append(log, <<"Starting instances...">>)
    /\ calls' = Append(calls, Raised(StartCall(instance_ids)))
    /\ pc' = "start_wait"
    /\ UNCHANGED <<event, response, instance_ids, outcome>>
    /\ UNCHANGED replVars

\* start_instances, lines 8-9: the start request raises.
StartRequestFails ==
    /\ pc = "start_request"
    /\ log' = Append(log, <<"Starting instances...">>)
    /\ calls' = Append(calls, Raised(StartCall(instance_ids)))
    /\ pc' = "done"
    /\ outcome' = "ClientError"
    /\ UNCHANGED <<event, response, instance_ids>>
    /\ UNCHANGED replVars

\* start_instances, lines 11-14
StartWait ==
    /\ pc = "start_wait"
    /\ calls' = Append(calls, Returned(WaitCall("instance_running", instance_ids)))
    /\ log' = log \o <<<<"Waiting for instances to start...">>,
                       <<"Instances started successfully">>>>
    /\ pc' = "done"
    /\ outcome' = "returned"
    /\ UNCHANGED <<event, response, instance_ids>>
    /\ UNCHANGED replVars

\* start_instances, lines 11-13: the waiter times out or its poll raises.
StartWaitFails ==
    /\ pc = "start_wait"
    /\ calls' = Append(calls, Raised(WaitCall("instance_running", instance_ids)))
    /\ log' = Append(log, <<"Waiting for instances to start...">>)
    /\ pc' = "done"
    /\ outcome' = "WaiterError"
    /\ UNCHANGED <<event, response, instance_ids>>
    /\ UNCHANGED replVars

\* stop_instances, lines 17-18
StopRequest ==
    /\ pc = "stop_request"
    /\ log' = Append(log, <<"Stopping instances...">>)
    /\ calls' = Append(calls, Returned(StopCall(instance_ids)))
    /\ pc' = "stop_wait"
    /\ UNCHANGED <<event, response, instance_ids, outcome>>
    /\ UNCHANGED replVars

\* stop_instances, lines 17-18: the stop request raises.
StopRequestFails ==
    /\ pc = "stop_request"
    /\ log' = Append(log, <<"Stopping instances...">>)
    /\ calls' = Append(calls, Raised(StopCall(instance_ids)))
    /\ pc' = "done"
    /\ outcome' = "ClientError"
    /\ UNCHANGED <<event, response, instance_ids>>
    /\ UNCHANGED replVars

\* Variant: the stop path waits on the waiter of the start path.
StopWaitWrongWaiter ==
    /\ pc = "stop_wait"
    /\ calls' = Append(calls, Returned(WaitCall("instance_running", instance_ids)))
    /\ log' = log \o <<<<"Waiting for instances to stop...">>,
                       <<"Instances stopped successfully">>>>
    /\ pc' = "done"
    /\ outcome' = "returned"
    /\ UNCHANGED <<event, response, instance_ids>>
    /\ UNCHANGED replVars

\* stop_instances, lines 20-23
StopWait ==
    /\ pc = "stop_wait"
    /\ calls' = Append(calls, Returned(WaitCall("instance_stopped", instance_ids)))
    /\ log' = log \o <<<<"Waiting for instances to stop...">>,
                       <<"Instances stopped successfully">>>>
    /\ pc' = "done"
    /\ outcome' = "returned"
    /\ UNCHANGED <<event, response, instance_ids>>
    /\ UNCHANGED replVars

\* stop_instances, lines 20-22: the waiter times out or its poll raises.
StopWaitFails ==
    /\ pc = "stop_wait"
    /\ calls' = Append(calls, Raised(WaitCall("instance_stopped", instance_ids)))
    /\ log' = Append(log, <<"Waiting for instances to stop...">>)
    /\ pc' = "done"
    /\ outcome' = "WaiterError"
    /\ UNCHANGED <<event, response, instance_ids>>
    /\ UNCHANGED replVars

SchedulerNext ==
    \/ HandlerEntry
    \/ DescribeInstances
    \/ DescribeInstancesFails
    \/ FlattenResponse
    \/ NoInstances
    \/ FoundInstances
    \/ Dispatch
    \/ StartRequest
    \/ StartRequestFails
    \/ StartWait
    \/ StartWaitFails
    \/ StopRequest
    \/ StopRequestFails
    \/ StopWait
    \/ StopWaitFails

SchedulerSpec == SchedulerInit /\ [][SchedulerNext]_vars

(***************************************************************************)
(* Properties of the Instance Scheduler (checked under SchedulerSpec)      *)
(***************************************************************************)
\* Sum of the lengths of the first n reservations.
RECURSIVE InstancesIn(_, _)
InstancesIn(reservations, n) ==
    IF n = 0 THEN 0 ELSE InstancesIn(reservations, n - 1) + Len(reservations[n])

\* The identifiers a lookup returned: the k-th identifier is found by position,
\* counting through the reservations in order.
LookupIds(reservations) ==
    [k \in 1..InstancesIn(reservations, Len(reservations)) |->
        LET r == CHOOSE j \in 1..Len(reservations) :
                     /\ InstancesIn(reservations, j - 1) < k
                     /\ k <= InstancesIn(reservations, j)
        IN reservations[r][k - InstancesIn(reservations, r - 1)]]

CallsOf(ops) == {i \in DOMAIN calls : calls[i].op \in ops}
NoCallRaised == \A i \in DOMAIN calls : ~calls[i].raised
LookupReturned == calls # <<>> /\ ~calls[1].raised
HasAction == "Action" \in DOMAIN event
UnknownAction == HasAction /\ event.Action \notin {"Start", "Stop"}
RequestOps == {"start_instances", "stop_instances"}
WaitOps == {"instance_running", "instance_stopped"}

\* C1: when Action is "Start", the lookup returned at least one identifier and
\* no call failed, the finished invocation has issued exactly one start request
\* and exactly one wait-for-running call, the request before the wait, both
\* with exactly the identifiers of the lookup, in order.
C1_StartPath ==
    (/\ pc = "done"
     /\ HasAction /\ event.Action = "Start"
     /\ LookupReturned /\ LookupIds(response) # <<>>
     /\ NoCallRaised)
    => LET S == CallsOf({"start_instances"})
           W == CallsOf({"instance_running"})
       IN /\ Cardinality(S) = 1
          /\ Cardinality(W) = 1
          /\ \A i \in S : \A j \in W :
                /\ i < j
                /\ calls[i].arg = LookupIds(response)
                /\ calls[j].arg = LookupIds(response)

C1_Witness ==
    /\ pc = "done"
    /\ HasAction /\ event.Action = "Start"
    /\ NoCallRaised
    /\ response = <<<<"i-111">>, <<"i-222">>>>
    /\ CallsOf({"instance_running"}) # {}
    /\ outcome = "returned"

\* C2: when Action is "Stop", the lookup returned at least one identifier and
\* no call failed, the finished invocation has issued exactly one stop request
\* and, after it, exactly one wait-for-stopped call, both with exactly the
\* identifiers of the lookup.
C2_StopPath ==
    (/\ pc = "done"
     /\ HasAction /\ event.Action = "Stop"
     /\ LookupReturned /\ LookupIds(response) # <<>>
     /\ NoCallRaised)
    => LET S == CallsOf({"stop_instances"})
           W == CallsOf({"instance_stopped"})
       IN /\ Cardinality(S) = 1
          /\ Cardinality(W) = 1
          /\ \A i \in S : \A j \in W :
                /\ i < j
                /\ calls[i].arg = LookupIds(response)
                /\ calls[j].arg = LookupIds(response)

C2_Witness ==
    /\ pc = "done"
    /\ HasAction /\ event.Action = "Stop"
    /\ NoCallRaised
    /\ response = <<<<"i-222", "i-111">>, <<>>>>
    /\ CallsOf({"instance_stopped"}) # {}
    /\ outcome = "returned"

\* C3: when the lookup returned zero identifiers, whatever the event, the
\* finished invocation has issued no start, stop or wait call, has logged the
\* fact, and has ended as a normal completion.
C3_EmptyLookupCleanExit ==
    (/\ pc = "done"
     /\ LookupReturned /\ LookupIds(response) = <<>>)
    => /\ CallsOf(RequestOps \cup WaitOps) = {}
       /\ \E i \in DOMAIN log : log[i] = NoneFoundLine
       /\ outcome = "returned"

\* C4: when Action is neither "Start" nor "Stop", no start request, no stop
\* request and no wait call is ever issued; every provider call is the lookup.
C4_UnknownActionNoStateChange ==
    UnknownAction => \A i \in DOMAIN calls : calls[i].op = "describe_instances"

C4_Witness ==
    /\ pc = "done"
    /\ UnknownAction
    /\ Len(instance_ids) >= 2
    /\ outcome = "returned"

\* C5 as stated: when Action is neither "Start" nor "Stop", whatever the lookup
\* returned, the finished invocation has logged a line holding the value and
\* then returned normally.
C5_UnknownActionAlwaysLogged ==
    (/\ pc = "done"
     /\ UnknownAction
     /\ LookupReturned)
    => /\ log # <<>>
       /\ log[Len(log)] = <<"Unknown action ", event.Action, " provided by event.">>
       /\ outcome = "returned"

\* C5 amended: when Action is neither "Start" nor "Stop" and the lookup
\* returned at least one identifier, the finished invocation has logged a line
\* holding the value, as its last line, and then returned normally.
C5_UnknownActionLogged ==
    (/\ pc = "done"
     /\ UnknownAction
     /\ LookupReturned /\ LookupIds(response) # <<>>)
    => /\ log # <<>>
       /\ log[Len(log)] = <<"Unknown action ", event.Action, " provided by event.">>
       /\ outcome = "returned"

C5_Witness ==
    /\ pc = "done"
    /\ HasAction /\ event.Action = "start"
    /\ LookupReturned /\ response = <<<<>>, <<"i-111">>>>
    /\ outcome = "returned"

\* C9: a provider call that raised is the last call of the invocation, which
\* has then ended in an error outcome: a failed lookup is followed by no
\* start, stop or wait call, a failed request by no wait call; and once the
\* invocation has ended nothing more is issued (no recovery, no retry).
C9_FailurePropagates ==
    /\ [](\A i \in DOMAIN calls :
            calls[i].raised =>
                /\ i = Len(calls)
                /\ pc = "done"
                /\ outcome \in {"ClientError", "WaiterError"}
                /\ (calls[i].op = "describe_instances"
                        => CallsOf(RequestOps \cup WaitOps) = {})
                /\ (calls[i].op \in RequestOps => CallsOf(WaitOps) = {}))
    /\ [][pc = "done" => UNCHANGED <<calls, outcome, pc>>]_vars

C9_Witness ==
    /\ pc = "done"
    /\ Len(calls) = 2
    /\ calls[2].op = "start_instances" /\ calls[2].raised
    /\ outcome = "ClientError"

\* C10: the first provider call of an invocation is the lookup with the filter
\* tag:Scheduled = OfficeHours, whatever the event, there is no second lookup
\* and a finished invocation has issued one; at most one start or stop request
\* is issued; and every wait call directly follows the matching request, which
\* returned, and carries the identifier list of that request.
C10_CallDiscipline ==
    /\ (pc = "done" => calls # <<>>)
    /\ \A i \in DOMAIN calls :
        /\ (i = 1 <=> calls[i].op = "describe_instances")
        /\ (i = 1 => calls[i].arg =
                <<[Name |-> <<"tag:", "Scheduled">>, Values |-> <<"OfficeHours">>]>>)
        /\ (calls[i].op \in WaitOps =>
                /\ i > 1
                /\ calls[i - 1].op =
                      (IF calls[i].op = "instance_running"
                       THEN "start_instances" ELSE "stop_instances")
                /\ ~calls[i - 1].raised
                /\ calls[i - 1].arg = calls[i].arg)
    /\ Cardinality(CallsOf(RequestOps)) <= 1

C10_Witness ==
    /\ pc = "done"
    /\ Len(calls) = 3
    /\ calls[3].op = "instance_stopped" /\ calls[3].raised
    /\ Len(calls[3].arg) >= 3

(***************************************************************************)
(* Snapshot Replicator                                                     *)
(***************************************************************************)
Regions == {"us-east-1", "eu-west-1"}
KmsKeys == {"key-1", "key-2"}
Chars == {"a", ":"}

\* Resource names are strings, modelled as sequences of characters.
Arns == SeqsUpTo(Chars, MaxArnLen)

Environs ==
    [SOURCE_REGION : Regions, DESTINATION_REGION : Regions,
     DESTINATION_REGION_KMS_KEY_ID : KmsKeys]

\* str.split(sep): the segments between the occurrences of sep.
RECURSIVE split(_, _)
split(s, sep) ==
    IF \A i \in 1..Len(s) : s[i] # sep THEN <<s>>
    ELSE LET i == CHOOSE j \in 1..Len(s) :
                      s[j] = sep /\ \A k \in 1..(j - 1) : s[k] # sep
         IN <<SubSeq(s, 1, i - 1)>> \o split(SubSeq(s, i + 1, Len(s)), sep)

\* Variant: the first segment is taken instead of the last.
snapshot_name_first(snapshot_arn) ==
    LET arn == split(snapshot_arn, ":") IN arn[1]

\* lines 8-9: arn = snapshot_arn.split(':'); snapshot_name = arn[-1]
snapshot_name(snapshot_arn) ==
    LET arn == split(snapshot_arn, ":") IN arn[Len(arn)]

\* line 13: f'copy-{snapshot_name}'
TargetIdentifier(snapshot_arn) ==
    <<"c", "o", "p", "y", "-">> \o snapshot_name(snapshot_arn)

\* Variant: the tag records the destination region.
CopyRequestTagDestination(snapshot_arn) ==
    [SourceDBSnapshotIdentifier |-> snapshot_arn,
     TargetDBSnapshotIdentifier |-> TargetIdentifier(snapshot_arn),
     Tags |-> <<[Key |-> "source_region", Value |-> environ.DESTINATION_REGION]>>,
     SourceRegion |-> environ.SOURCE_REGION,
     KmsKeyId |-> environ.DESTINATION_REGION_KMS_KEY_ID]

\* lines 11-22: the keyword arguments of copy_db_snapshot
CopyRequest(snapshot_arn) ==
    [SourceDBSnapshotIdentifier |-> snapshot_arn,
     TargetDBSnapshotIdentifier |-> TargetIdentifier(snapshot_arn),
     Tags |-> <<[Key |-> "source_region", Value |-> environ.SOURCE_REGION]>>,
     SourceRegion |-> environ.SOURCE_REGION,
     KmsKeyId |-> environ.DESTINATION_REGION_KMS_KEY_ID]

ReplicatorInit ==
    /\ environ \in Environs
    /\ resources \in SeqsUpTo(Arns, MaxResources)
    /\ rpc = "client"
    /\ idx = 1
    /\ copies = <<>>
    /\ client = NoClient
    /\ rlog = <<>>
    /\ routcome = "running"
    /\ event = [time |-> "08:00"]
    /\ pc = "idle"
    /\ response = <<>>
    /\ instance_ids = <<>>
    /\ calls = <<>>
    /\ log = <<>>
    /\ outcome = "idle"

\* line 5
CreateClient ==
    /\ rpc = "client"
    /\ client' = [service |-> "rds", region_name |-> environ.DESTINATION_REGION]
    /\ rpc' = "loop"
    /\ UNCHANGED <<environ, resources, idx, copies, rlog, routcome>>
    /\ UNCHANGED schedVars

\* lines 7-23, one iteration: the copy request returns and is printed.
CopySnapshot ==
    /\ rpc = "loop"
    /\ idx <= Len(resources)
    /\ copies' = Append(copies, [request |-> CopyRequest(resources[idx]), raised |-> FALSE])
    /\ rlog' = Append(rlog, [DBSnapshotIdentifier |-> TargetIdentifier(resources[idx])])
    /\ idx' = idx + 1
    /\ UNCHANGED <<environ, resources, rpc, client, routcome>>
    /\ UNCHANGED schedVars

\* Variant: the failure of one record is caught and the loop goes on.
CopySnapshotFailsContinue ==
    /\ rpc = "loop"
    /\ idx <= Len(resources)
    /\ copies' = Append(copies, [request |-> CopyRequest(resources[idx]), raised |-> TRUE])
    /\ idx' = idx + 1
    /\ UNCHANGED <<environ, resources, rpc, client, rlog, routcome>>
    /\ UNCHANGED schedVars

\* lines 7-22, one iteration: the copy request raises.
CopySnapshotFails ==
    /\ rpc = "loop"
    /\ idx <= Len(resources)
    /\ copies' = Append(copies, [request |-> CopyRequest(resources[idx]), raised |-> TRUE])
    /\ rpc' = "done"
    /\ routcome' = "ClientError"
    /\ UNCHANGED <<environ, resources, idx, client, rlog>>
    /\ UNCHANGED schedVars

\* line 7: the list is exhausted, the handler returns None.
LoopExit ==
    /\ rpc = "loop"
    /\ idx > Len(resources)
    /\ rpc' = "done"
    /\ routcome' = "returned"
    /\ UNCHANGED <<environ, resources, idx, copies, client, rlog>>
    /\ UNCHANGED schedVars

ReplicatorNext ==
    \/ CreateClient
    \/ CopySnapshot
    \/ CopySnapshotFails
    \/ LoopExit

ReplicatorSpec == ReplicatorInit /\ [][ReplicatorNext]_vars

(***************************************************************************)
(* Properties of the Snapshot Replicator (checked under ReplicatorSpec)    *)
(***************************************************************************)
\* The part of s after its last colon; s itself when it holds no colon.
AfterLastColon(s) ==
    LET colons == {i \in 1..Len(s) : s[i] = ":"}
    IN IF colons = {} THEN s
       ELSE LET last == CHOOSE i \in colons : \A j \in colons : j <= i
            IN [k \in 1..(Len(s) - last) |-> s[last + k]]

\* C6: when no copy request failed, the finished invocation has issued one copy
\* request per entry of resources, the i-th for the i-th entry, each with the
\* configured source region as SourceRegion and as the value of its single
\* source_region tag, and with the configured key identifier.
C6_OneCopyPerRecord ==
    (rpc = "done" /\ routcome = "returned")
    => /\ Len(copies) = Len(resources)
       /\ \A i \in DOMAIN copies :
            /\ ~copies[i].raised
            /\ copies[i].request.SourceDBSnapshotIdentifier = resources[i]
            /\ copies[i].request.SourceRegion = environ.SOURCE_REGION
            /\ Len(copies[i].request.Tags) = 1
            /\ copies[i].request.Tags[1] =
                  [Key |-> "source_region", Value |-> environ.SOURCE_REGION]
            /\ copies[i].request.KmsKeyId = environ.DESTINATION_REGION_KMS_KEY_ID

C6_Witness ==
    /\ rpc = "done" /\ routcome = "returned"
    /\ Len(resources) = 2 /\ resources[1] = resources[2]
    /\ Len(copies) = 2
    /\ environ.SOURCE_REGION # environ.DESTINATION_REGION

\* C7: every copy request issued has as destination identifier "copy-"
\* followed by the part of its resource name after the last colon (the whole
\* name when there is no colon, nothing when the name ends in a colon), and as
\* source identifier the unmodified resource name.
C7_DestinationName ==
    \A i \in DOMAIN copies :
        /\ copies[i].request.SourceDBSnapshotIdentifier = resources[i]
        /\ copies[i].request.TargetDBSnapshotIdentifier =
              <<"c", "o", "p", "y", "-">> \o AfterLastColon(resources[i])
        /\ (\A k \in DOMAIN resources[i] : resources[i][k] # ":")
              => copies[i].request.TargetDBSnapshotIdentifier =
                    <<"c", "o", "p", "y", "-">> \o resources[i]
        /\ (resources[i] # <<>> /\ resources[i][Len(resources[i])] = ":")
              => copies[i].request.TargetDBSnapshotIdentifier =
                    <<"c", "o", "p", "y", "-">>

C7_Witness ==
    /\ Len(copies) = 2
    /\ resources = <<<<"a", ":", "a">>, <<":", "a", ":">>>>
    /\ copies[1].request.TargetDBSnapshotIdentifier = <<"c", "o", "p", "y", "-", "a">>
    /\ copies[2].request.TargetDBSnapshotIdentifier = <<"c", "o", "p", "y", "-">>

\* C8: a copy request that failed is the last one issued; the invocation has
\* then ended with the failure, requests were issued for exactly the records
\* up to the failed one, in order; requests already issued stay issued and
\* nothing is issued once the invocation has ended.
C8_AbortOnFirstFailure ==
    /\ [](\A k \in DOMAIN copies :
            copies[k].raised =>
                /\ k = Len(copies)
                /\ rpc = "done"
                /\ routcome = "ClientError"
                /\ k <= Len(resources)
                /\ \A i \in 1..k :
                      copies[i].request.SourceDBSnapshotIdentifier = resources[i]
                /\ \A i \in 1..(k - 1) : ~copies[i].raised)
    /\ [][/\ Len(copies') >= Len(copies)
          /\ SubSeq(copies', 1, Len(copies)) = copies
          /\ (rpc = "done" => UNCHANGED <<copies, routcome, rpc>>)]_vars

C8_Witness ==
    /\ rpc = "done" /\ routcome = "ClientError"
    /\ Len(resources) = 2
    /\ Len(copies) = 1 /\ copies[1].raised

====
